---- MODULE Spec2Model ----
(***************************************************************************)
(* Model of the nouns-world-directory page component: the source loader    *)
(* (v7, v31, v35 and v38 variants of the NounsDirectory load effect), the   *)
(* column resolver, the row normalizer and the string helpers they use.    *)
(* Strings are TLC strings; a character is a string of length one.         *)
(***************************************************************************)
EXTENDS Integers, Sequences, FiniteSets, TLC

VARIABLES
  version,            \* which variant of the component is mounted
  rows,               \* useState([])   : the canonical row set
  loading,            \* useState(true)
  error,              \* useState("")   (v31, v35, v38)
  debugSnippet,       \* useState("")   (v35, v38)
  debugFields,        \* useState([])   (v35, v38)
  useMainTagFilters,  \* useState(true) (v7)
  loads,              \* one record per run of the load effect, oldest first
  selectedTags,       \* useState([])   : the selected tags, in toggle order
  query,              \* useState("")   : the search text
  slugIn, slugOut,    \* argument and successive results of slug
  normIn, normOut,    \* argument and result of the row normalizer
  fieldsIn, colsOut,  \* header list given to resolveColumns and its result
  listIn, listOut,    \* argument and result of parseList
  request,            \* the relay's request: its url parameter and the upstream's behaviour
  relayPc,            \* where the relay handler is: "start", "fetch", "text", "done"
  responses,          \* the responses the relay handler has returned
  fetches,            \* the upstream fetches the relay handler has made
  htmlIn, htmlOut     \* argument (the table's cell texts) and result of parsePublishedHtml

loaderVars == <<version, rows, loading, error, debugSnippet, debugFields,
                useMainTagFilters, loads>>
viewVars == <<selectedTags, query>>
slugVars == <<slugIn, slugOut>>
normVars == <<normIn, normOut>>
resolveVars == <<fieldsIn, colsOut>>
listVars == <<listIn, listOut>>
relayVars == <<request, relayPc, responses, fetches>>
htmlVars == <<htmlIn, htmlOut>>
vars == <<loaderVars, viewVars, slugVars, normVars, resolveVars, listVars, relayVars,
          htmlVars>>

(***************************************************************************)
(* Bounds of the model.                                                    *)
(***************************************************************************)
MaxLoads == 2
MaxSlugLen == 4

(***************************************************************************)
(* Characters and the String.prototype methods the code calls.             *)
(***************************************************************************)
UpperAlpha == "ABCDEFGHIJKLMNOPQRSTUVWXYZ"
LowerAlpha == "abcdefghijklmnopqrstuvwxyz"
DigitChars == "0123456789"

CharAt(s, i) == SubSeq(s, i, i)

CharsOf(s) == {CharAt(s, i) : i \in 1..Len(s)}

UpperSet == CharsOf(UpperAlpha)
LowerAlnumSet == CharsOf(LowerAlpha) \cup CharsOf(DigitChars)
LowerOfUpper ==
  [c \in UpperSet |->
     CharAt(LowerAlpha, CHOOSE i \in 1..Len(UpperAlpha) : CharAt(UpperAlpha, i) = c)]

IsSpace(c) == c \in {" ", "\t", "\n"}

IsLowerAlnum(c) == c \in LowerAlnumSet

LowerChar(c) == IF c \in UpperSet THEN LowerOfUpper[c] ELSE c

RECURSIVE toLowerCase(_)
toLowerCase(s) ==
  IF s = "" THEN "" ELSE LowerChar(Head(s)) \o toLowerCase(Tail(s))

RECURSIVE trimStart(_)
trimStart(s) ==
  IF s # "" /\ IsSpace(Head(s)) THEN trimStart(Tail(s)) ELSE s

RECURSIVE trimEnd(_)
trimEnd(s) ==
  IF s # "" /\ IsSpace(CharAt(s, Len(s)))
    THEN trimEnd(SubSeq(s, 1, Len(s) - 1))
    ELSE s

trim(s) == trimEnd(trimStart(s))

\* Mutant of ReplaceNonAlnumRuns: the "+" of the pattern is lost, every
\* character outside [a-z0-9] becomes its own hyphen.
RECURSIVE ReplaceNonAlnumEach(_, _)
ReplaceNonAlnumEach(s, inRun) ==
  IF s = "" THEN ""
  ELSE IF IsLowerAlnum(Head(s))
    THEN Head(s) \o ReplaceNonAlnumEach(Tail(s), FALSE)
    ELSE "-" \o ReplaceNonAlnumEach(Tail(s), TRUE)

\* s.replace(/[^a-z0-9]+/g, "-"): every maximal run of characters outside
\* [a-z0-9] becomes one hyphen.
RECURSIVE ReplaceNonAlnumRuns(_, _)
ReplaceNonAlnumRuns(s, inRun) ==
  IF s = "" THEN ""
  ELSE IF IsLowerAlnum(Head(s))
    THEN Head(s) \o ReplaceNonAlnumRuns(Tail(s), FALSE)
    ELSE (IF inRun THEN "" ELSE "-") \o ReplaceNonAlnumRuns(Tail(s), TRUE)

\* s.replace(/(^-|-$)+/g, ""): a hyphen at the very start and a hyphen at the
\* very end are removed (the alternatives are anchored, so only those two).
StripEdgeHyphens(s) ==
  LET a == IF s # "" /\ Head(s) = "-" THEN Tail(s) ELSE s
  IN IF a # "" /\ CharAt(a, Len(a)) = "-" THEN SubSeq(a, 1, Len(a) - 1) ELSE a

slug(s) == StripEdgeHyphens(ReplaceNonAlnumRuns(toLowerCase(trim(s)), FALSE))

\* Mutant of SplitList: the semicolon is not a delimiter.
RECURSIVE SplitListCommaOnly(_, _)
SplitListCommaOnly(s, cur) ==
  IF s = "" THEN <<cur>>
  ELSE IF Head(s) = ","
    THEN <<cur>> \o SplitListCommaOnly(Tail(s), "")
    ELSE SplitListCommaOnly(Tail(s), cur \o Head(s))

\* val.split(/[;,]/): the pieces between delimiters, empty pieces included.
RECURSIVE SplitList(_, _)
SplitList(s, cur) ==
  IF s = "" THEN <<cur>>
  ELSE IF Head(s) \in {";", ","}
    THEN <<cur>> \o SplitList(Tail(s), "")
    ELSE SplitList(Tail(s), cur \o Head(s))

RECURSIVE TrimNonEmpty(_)
TrimNonEmpty(pieces) ==
  IF pieces = <<>> THEN <<>>
  ELSE LET t == trim(Head(pieces))
       IN (IF t = "" THEN <<>> ELSE <<t>>) \o TrimNonEmpty(Tail(pieces))

parseList(val) == TrimNonEmpty(SplitList(val, ""))

(***************************************************************************)
(* Column resolver.  A resolved column is <<>> (null) or <<header>>.       *)
(***************************************************************************)
Versions == {"v7", "v31", "v35", "v38"}

\* CONFIG.COLUMNS of the variant: v7 has mainTag and two category names,
\* the later variants have cardCategories and no mainTag.
COLUMNS(ver) ==
  IF ver = "v7"
    THEN [title |-> <<"Name (with url hyperlinked)", "Name", "Title">>,
          link |-> <<"URL", "Link">>,
          description |-> <<"Description", "About">>,
          categories |-> <<"Category", "Categories">>,
          mainTag |-> <<"Main tag", "Main Tag", "Primary tag", "Main category", "Main Category">>,
          hiddenTags |-> <<"Hidden tags", "Hidden Tags", "Search tags", "Search Keywords">>,
          logoUrl |-> <<"Logo URL", "Logo url", "Image URL">>,
          image |-> <<"Logo", "Image">>]
    ELSE [title |-> <<"Name (with url hyperlinked)", "Name", "Title">>,
          link |-> <<"URL", "Link">>,
          description |-> <<"Description", "About">>,
          categories |-> <<"Category">>,
          cardCategories |-> <<"Card Categories", "Card categories">>,
          hiddenTags |-> <<"Hidden tags", "Hidden Tags", "Search tags", "Search Keywords">>,
          logoUrl |-> <<"Logo URL", "Logo url", "Image URL">>,
          image |-> <<"Logo", "Image">>]

\* new Map(fields.map(f => [f.toLowerCase().trim(), f])).get(k): a later
\* header with the same key overwrites an earlier one.
lowerIndexGet(fields, k) ==
  LET hits == {j \in 1..Len(fields) : trim(toLowerCase(fields[j])) = k}
  IN IF hits = {} THEN <<>>
     ELSE <<fields[CHOOSE j \in hits : \A m \in hits : m <= j]>>

\* Mutant of pick: the candidates are tried from the last to the first.
RECURSIVE pickLatest(_, _)
pickLatest(fields, arr) ==
  IF arr = <<>> THEN <<>>
  ELSE LET found == lowerIndexGet(fields, toLowerCase(arr[Len(arr)]))
       IN IF found # <<>> /\ found[1] # "" THEN found
          ELSE pickLatest(fields, SubSeq(arr, 1, Len(arr) - 1))

\* for (const name of arr) { const found = lowerIndex.get(...); if (found) return found; }
RECURSIVE pick(_, _)
pick(fields, arr) ==
  IF arr = <<>> THEN <<>>
  ELSE LET found == lowerIndexGet(fields, toLowerCase(Head(arr)))
       IN IF found # <<>> /\ found[1] # "" THEN found ELSE pick(fields, Tail(arr))

resolveColumns(fields, candidatesMap) ==
  [f \in DOMAIN candidatesMap |-> pick(fields, candidatesMap[f])]

(***************************************************************************)
(* new URL(link).hostname, for the shapes of link the model uses: the      *)
(* parser throws when the input has no scheme or a special scheme with an  *)
(* empty or invalid host; the host of a special scheme is lower-cased; a   *)
(* scheme without "//" (mailto:, javascript:) has the empty hostname.      *)
(***************************************************************************)
SchemeChars == UpperSet \cup LowerAlnumSet \cup {"+", "-", "."}

SpecialSchemes == {"http", "https", "ws", "wss", "ftp"}

RECURSIVE TakeWhile(_, _)
TakeWhile(s, set) ==
  IF s # "" /\ Head(s) \in set THEN Head(s) \o TakeWhile(Tail(s), set) ELSE ""

RECURSIVE TakeUntil(_, _)
TakeUntil(s, set) ==
  IF s # "" /\ Head(s) \notin set THEN Head(s) \o TakeUntil(Tail(s), set) ELSE ""

RECURSIVE DropWhile(_, _)
DropWhile(s, set) ==
  IF s # "" /\ Head(s) \in set THEN DropWhile(Tail(s), set) ELSE s

UrlHostname(link) ==
  LET input  == trim(link)
      scheme == TakeWhile(input, SchemeChars)
      rest   == SubSeq(input, Len(scheme) + 1, Len(input))
      hasScheme == /\ scheme # ""
                   /\ Head(scheme) \in UpperSet \cup CharsOf(LowerAlpha)
                   /\ rest # "" /\ Head(rest) = ":"
      after  == IF rest = "" THEN "" ELSE Tail(rest)
      special == toLowerCase(scheme) \in SpecialSchemes
      auth   == IF special
                  THEN TakeUntil(DropWhile(after, {"/", "\\"}), {"/", "\\", "?", "#"})
                  ELSE IF Len(after) >= 2 /\ SubSeq(after, 1, 2) = "//"
                    THEN TakeUntil(SubSeq(after, 3, Len(after)), {"/", "?", "#"})
                    ELSE ""
      host   == TakeUntil(auth, {":"})
  IN IF ~hasScheme THEN [ok |-> FALSE, hostname |-> ""]
     ELSE IF special /\ (host = "" \/ \E c \in CharsOf(host) : IsSpace(c))
       THEN [ok |-> FALSE, hostname |-> ""]
     ELSE [ok |-> TRUE, hostname |-> IF special THEN toLowerCase(host) ELSE host]

\* hostname.replace(/^www\./, "")
StripWww(h) ==
  IF Len(h) >= 4 /\ SubSeq(h, 1, 4) = "www." THEN SubSeq(h, 5, Len(h)) ELSE h

(***************************************************************************)
(* Row normalizer: the body of raw.map((row, i) => ...).  i is zero-based. *)
(* The result is [threw |-> TRUE] when new URL(link) throws, else          *)
(* [threw |-> FALSE, row |-> the canonical row].                           *)
(***************************************************************************)
\* (col && row[col]) || "" : null column or missing key gives "".
Cell(col, row) ==
  IF col # <<>> /\ col[1] \in DOMAIN row THEN row[col[1]] ELSE ""

\* Mutant of TitleOf: the placeholder title counts from zero.
TitleOfZeroBased(titleRaw, link, i) ==
  trim(IF titleRaw # "" THEN titleRaw
       ELSE IF link # "" THEN StripWww(UrlHostname(link).hostname)
       ELSE "Untitled " \o ToString(i))

\* String(titleRaw || (link ? new URL(link).hostname.replace(/^www\./, "")
\*                          : `Untitled ${i + 1}`)).trim()
TitleOf(titleRaw, link, i) ==
  trim(IF titleRaw # "" THEN titleRaw
       ELSE IF link # "" THEN StripWww(UrlHostname(link).hostname)
       ELSE "Untitled " \o ToString(i + 1))

ImageOf(logoUrl, legacyLogo, title) ==
  LET derivedLogo == IF title # "" THEN "/logos/" \o slug(title) \o ".png" ELSE ""
  IN IF logoUrl # "" THEN logoUrl
     ELSE IF legacyLogo # "" THEN legacyLogo
     ELSE derivedLogo

\* Mutant of RowKey: the row index is left out of the key.
RowKeySlugOnly(title, i) == slug(title)

\* key: `${slug(title)}-${i}`
RowKey(title, i) == slug(title) \o "-" \o ToString(i)

normalizeRow(ver, cols, row, i) ==
  LET titleRaw == Cell(cols.title, row)
      link     == Cell(cols.link, row)
      title    == TitleOf(titleRaw, link, i)
      description == trim(Cell(cols.description, row))
      categories  == parseList(Cell(cols.categories, row))
      hidden      == parseList(Cell(cols.hiddenTags, row))
      logoUrl     == trim(Cell(cols.logoUrl, row))
      legacyLogo  == trim(Cell(cols.image, row))
      image       == ImageOf(logoUrl, legacyLogo, title)
      key         == RowKey(title, i)
  IN IF titleRaw = "" /\ link # "" /\ ~UrlHostname(link).ok
       THEN [threw |-> TRUE]
     ELSE IF ver = "v7"
       THEN LET mainTagList == parseList(Cell(cols.mainTag, row))
            IN [threw |-> FALSE,
                row |-> [key |-> key, title |-> title, link |-> link,
                         description |-> description,
                         mainTag |-> IF mainTagList = <<>> THEN "" ELSE mainTagList[1],
                         hiddenTags |-> hidden,
                         legacyCategories |-> categories,
                         image |-> image]]
       ELSE [threw |-> FALSE,
             row |-> [key |-> key, title |-> title, link |-> link,
                      description |-> description,
                      categories |-> categories,
                      cardCategories |-> parseList(Cell(cols.cardCategories, row)),
                      hiddenTags |-> hidden,
                      image |-> image]]

\* raw.map(normalize): throws as soon as one row throws.
normalizeAll(ver, fields, data) ==
  LET cols == resolveColumns(fields, COLUMNS(ver))
      out  == [j \in 1..Len(data) |-> normalizeRow(ver, cols, data[j], j - 1)]
  IN IF \E j \in 1..Len(data) : out[j].threw
       THEN [threw |-> TRUE, data |-> <<>>]
       ELSE [threw |-> FALSE, data |-> [j \in 1..Len(data) |-> out[j].row]]

(***************************************************************************)
(* Response bodies.  A body is the text of an HTTP response: head is the   *)
(* start of the text, format says whether the text is an HTML document or  *)
(* delimited text, cells are the cells of its table (header row first).    *)
(***************************************************************************)
HtmlSheet ==
  [id |-> "HtmlSheet", head |-> "<!DOCTYPE html>", format |-> "html",
   cells |-> << <<"Name", "URL", "Category">>,
                <<"Foo Bar", "https://foo.wtf", "Art, DAO">>,
                <<"", "https://www.Example.com/x", "art">>,
                <<"", "", "">> >>]

CsvSheet ==
  [id |-> "CsvSheet", head |-> "name,URL,Logo URL,Logo", format |-> "csv",
   cells |-> << <<"name", "URL", "Logo URL", "Logo">>,
                <<" Nouns ", "", "a.png", "b.png">>,
                <<"Prop House", "", " ", "b.png">> >>]

HtmlBadLink ==
  [id |-> "HtmlBadLink", head |-> " <html>", format |-> "html",
   cells |-> << <<"Title", "Link">>,
                <<"Ok", "">>,
                <<"", "not a url">> >>]

CsvBadLink ==
  [id |-> "CsvBadLink", head |-> "Title,Link", format |-> "csv",
   cells |-> << <<"Title", "Link">>,
                <<"", "not a url">>,
                <<"Ok", "">> >>]

CsvBlankTitle ==
  [id |-> "CsvBlankTitle", head |-> "Name,URL", format |-> "csv",
   cells |-> << <<"Name", "URL">>,
                <<"  ", "https://nouns.wtf">> >>]

HtmlEmptyHost ==
  [id |-> "HtmlEmptyHost", head |-> "<table>", format |-> "html",
   cells |-> << <<"Name", "URL">>,
                <<"", "mailto:a@b.c">> >>]

CsvUnmatched ==
  [id |-> "CsvUnmatched", head |-> "foo,bar", format |-> "csv",
   cells |-> << <<"foo", "bar">>,
                <<"x", "y">>,
                <<"z", "">> >>]

CsvSameTitles ==
  [id |-> "CsvSameTitles", head |-> "Title", format |-> "csv",
   cells |-> << <<"Title">>,
                <<"Foo">>,
                <<"foo!">>,
                <<"&">>,
                <<"Foo-1">>,
                <<"?">> >>]

CsvTags ==
  [id |-> "CsvTags",
   head |-> "Name,Description,Main tag,Category,Card Categories,Hidden tags",
   format |-> "csv",
   cells |-> << <<"Name", "Description", "Main tag", "Category", "Card Categories", "Hidden tags">>,
                <<"Dev Tools", "", "", "Dev; Art", "Dev", "nft, code">>,
                <<"Art Shop", "Buy NFT prints", "Art", "art, Shop", "Art", "secret">>,
                <<"Hub", "Community", "ART", "", "", "">> >>]

CsvLegacyTags ==
  [id |-> "CsvLegacyTags", head |-> "Name,Main tag,Category,Hidden tags", format |-> "csv",
   cells |-> << <<"Name", "Main tag", "Category", "Hidden tags">>,
                <<"Alpha", "", "Art, DAO", "zeta">>,
                <<"Beta", " ", "art", "">>,
                <<"Gamma", "", "", "Art, beta">> >>]

CsvRepeats ==
  [id |-> "CsvRepeats", head |-> "Name,Cat", format |-> "csv",
   cells |-> << <<"Name", "Category", "Card Categories", "Hidden tags">>,
                <<"Dup", "Art, Art", "Art; Shop; Art", "x, x">> >>]

HtmlUnmatched ==
  [id |-> "HtmlUnmatched", head |-> "<html><table>", format |-> "html",
   cells |-> << <<"foo", "Nom">>,
                <<"x", "y">>,
                <<"z">> >>]

HtmlNoTable ==
  [id |-> "HtmlNoTable", head |-> "<html><body>Sorry", format |-> "html",
   cells |-> <<>>]

CsvEmpty ==
  [id |-> "CsvEmpty", head |-> "", format |-> "csv", cells |-> <<>>]

CsvBlank ==
  [id |-> "CsvBlank", head |-> "\n", format |-> "csv", cells |-> <<>>]

Bodies == {HtmlSheet, CsvSheet, HtmlBadLink, CsvBadLink, CsvBlankTitle,
           HtmlEmptyHost, CsvUnmatched, CsvSameTitles, CsvTags, CsvLegacyTags,
           CsvRepeats, HtmlUnmatched, HtmlNoTable, CsvEmpty, CsvBlank}

BodyById(id) == CHOOSE b \in Bodies : b.id = id

\* What an awaited fetchText (or Papa download) settles with: it throws, or
\* it returns { ok, text }.
Outcomes ==
  {[threw |-> TRUE, ok |-> FALSE, text |-> CsvEmpty],
   [threw |-> FALSE, ok |-> FALSE, text |-> HtmlNoTable]}
  \cup {[threw |-> FALSE, ok |-> TRUE, text |-> b] : b \in Bodies}

\* The published-HTML address answers with an HTML document; the CSV address
\* answers with delimited text or with an HTML error page.
OutcomesOf(variant) ==
  {o \in Outcomes :
     o.ok => IF variant = "html" THEN o.text.format = "html"
             ELSE o.text.format = "csv" \/ o.text = HtmlNoTable}

(***************************************************************************)
(* Parsers.                                                                *)
(***************************************************************************)
\* Object.fromEntries(headers.map((h, i) => [h, r[i] ?? ""])): a later
\* column with the same header overwrites an earlier one.
RecordOf(headers, r, fill) ==
  LET keys == {headers[j] : j \in {m \in 1..Len(headers) : fill \/ m <= Len(r)}}
  IN [h \in keys |->
        LET j == CHOOSE m \in 1..Len(headers) :
                   /\ headers[m] = h
                   /\ \A q \in 1..Len(headers) : headers[q] = h => q <= m
        IN IF j <= Len(r) THEN r[j] ELSE ""]

\* td.textContent.replace(/\s+/g, " ").trim()
RECURSIVE CollapseSpaces(_, _)
CollapseSpaces(s, inRun) ==
  IF s = "" THEN ""
  ELSE IF IsSpace(Head(s))
    THEN (IF inRun THEN "" ELSE " ") \o CollapseSpaces(Tail(s), TRUE)
    ELSE Head(s) \o CollapseSpaces(Tail(s), FALSE)

CellText(s) == trim(CollapseSpaces(s, FALSE))

parsePublishedHtml(text) ==
  IF text.format # "html" \/ text.cells = <<>>
    THEN [rows |-> <<>>, fields |-> <<>>]
    ELSE LET raw == [j \in 1..Len(text.cells) |->
                       [m \in 1..Len(text.cells[j]) |-> CellText(text.cells[j][m])]]
             headers == [m \in 1..Len(raw[1]) |->
                           IF raw[1][m] # "" THEN raw[1][m] ELSE "col_{i}"]
         IN [rows |-> [j \in 1..(Len(raw) - 1) |-> RecordOf(headers, raw[j + 1], TRUE)],
             fields |-> headers]

\* Papa.parse(text, { header: true, skipEmptyLines: true }): meta.fields
\* and data; cells are not trimmed.
parseCsv(text) ==
  IF text.cells = <<>>
    THEN [rows |-> <<>>, fields |-> <<>>]
    ELSE [rows |-> [j \in 1..(Len(text.cells) - 1) |->
                      RecordOf(text.cells[1], text.cells[j + 1], FALSE)],
          fields |-> text.cells[1]]

\* /^\s*</.test(text)
LooksLikeHtml(text) ==
  LET t == trimStart(text.head) IN t # "" /\ Head(t) = "<"

\* text.slice(0, 200), kept as the start of the text
Slice200(text) == text.head

(***************************************************************************)
(* The load effect.  Each run of the effect adds a load record:            *)
(*   pc      the attempt it awaits ("html", "csvProxy", "csvDirect") or    *)
(*           "done";                                                       *)
(*   aborted the effect closure's flag, set by the effect's cleanup;       *)
(*   issued  the attempts issued so far, in order;                         *)
(*   last    how the most recently settled attempt ended ("" before any);  *)
(*   got     the id of the last body this load handed to the normalizer    *)
(*           ("" when no attempt reached it).                              *)
(***************************************************************************)
MsgV35 == "We couldn't parse either the HTML or CSV for this sheet right now."
MsgV38Fetch == "Could not fetch CSV data. Check the URL or try again."
MsgV38Parse == "We fetched CSV but couldn't parse it. Check columns and formatting."
MsgV31Read == "We couldn't read the sheet. It might be unpublished or rate-limited."
MsgV31Net == "Network error while loading the sheet."

HasAbortFlag(ver) == ver \in {"v35", "v38"}

FirstVariant(ver) ==
  IF ver = "v35" THEN "html" ELSE IF ver = "v7" THEN "csvDirect" ELSE "csvProxy"

\* Mutant of NextVariant: the two CSV attempts change places.
NextVariantSwapped(variant) ==
  IF variant = "html" THEN "csvDirect" ELSE "csvProxy"

NextVariant(variant) ==
  IF variant = "html" THEN "csvProxy" ELSE "csvDirect"

\* Mutant of AbortGuard: the flag is never consulted.
NoAbortGuard(l) == FALSE

\* if (aborted) return;
AbortGuard(l) == l.aborted

\* Mutant of ErrorOnFailure: the failure path leaves the message as it was.
ErrorKept(msg, cur) == cur

\* setError(msg) on a failure path: the new value of the error state.
ErrorOnFailure(msg, cur) == msg

NewLoad(ver) ==
  [pc |-> FirstVariant(ver), aborted |-> FALSE, issued |-> <<FirstVariant(ver)>>,
   last |-> "", got |-> ""]

InitComponent ==
  /\ version \in Versions
  /\ rows = <<>>
  /\ loading = TRUE
  /\ error = ""
  /\ debugSnippet = ""
  /\ debugFields = <<>>
  /\ useMainTagFilters = TRUE
  /\ loads = <<>>
  /\ selectedTags = <<>>
  /\ query = ""

\* The harness variables at rest: no call of a helper or of the relay is
\* under way.
NoSlugCall == slugIn = "" /\ slugOut = <<>>
NoNormCall == normIn = <<>> /\ normOut = <<>>
NoResolveCall == fieldsIn = <<>> /\ colsOut = <<>>
NoListCall == listIn = "" /\ listOut = <<>>
NoRelayCall == request = <<>> /\ relayPc = "done" /\ responses = <<>> /\ fetches = <<>>
NoHtmlCall == htmlIn = <<>> /\ htmlOut = <<>>

Init ==
  /\ InitComponent
  /\ NoSlugCall /\ NoNormCall /\ NoResolveCall /\ NoListCall /\ NoRelayCall /\ NoHtmlCall

\* useEffect(() => { ...; load(); return () => { aborted = true; }; }, []):
\* a re-run of the effect with the component state kept (a remount) first
\* runs the previous run's cleanup; it happens while the previous load is
\* still in flight.  load() runs up to its first await.
RunEffect ==
  /\ Len(loads) < MaxLoads
  /\ IF loads = <<>> THEN TRUE ELSE loads[Len(loads)].pc # "done"
  /\ loads' = Append([k \in 1..Len(loads) |->
                        IF HasAbortFlag(version)
                          THEN [loads[k] EXCEPT !.aborted = TRUE]
                          ELSE loads[k]],
                     NewLoad(version))
  /\ IF HasAbortFlag(version)
       THEN /\ loading' = TRUE
            /\ error' = ""
            /\ debugSnippet' = ""
            /\ debugFields' = <<>>
       ELSE UNCHANGED <<loading, error, debugSnippet, debugFields>>
  /\ UNCHANGED <<version, rows, useMainTagFilters, viewVars, slugVars, normVars, resolveVars, listVars, relayVars, htmlVars>>

\* What one attempt's response amounts to before anything is committed.
Classify(variant, o) ==
  LET p == IF variant = "html" THEN parsePublishedHtml(o.text) ELSE parseCsv(o.text)
  IN IF o.threw THEN [kind |-> "threw", fields |-> <<>>, data |-> <<>>]
     ELSE IF ~o.ok THEN [kind |-> "notOk", fields |-> <<>>, data |-> <<>>]
     ELSE IF variant # "html" /\ LooksLikeHtml(o.text)
       THEN [kind |-> "rejected", fields |-> <<>>, data |-> <<>>]
     ELSE IF p.fields = <<>> THEN [kind |-> "noHeaders", fields |-> <<>>, data |-> <<>>]
     ELSE [kind |-> "valid", fields |-> p.fields, data |-> p.rows]

\* Classify and the normalizer are functions of the variant, the component
\* version and the response alone; Settled tabulates them once.
Variants == {"html", "csvProxy", "csvDirect"}

Normalized(ver, a) == [a |-> a, n |-> normalizeAll(ver, a.fields, a.data)]

Settled ==
  [ver \in Versions |-> [variant \in Variants |-> [o \in Outcomes |->
     Normalized(ver, Classify(variant, o))]]]

\* v35 load(): the continuation after the awaited fetchText of load k settles
\* with outcome o, up to the next await or the end of load().
V35Settle(k, o) ==
  /\ version = "v35"
  /\ loads[k].pc # "done"
  /\ o \in OutcomesOf(loads[k].pc)
  /\ \E s \in {Settled[version][loads[k].pc][o]} :
     LET l == loads[k]
         a == s.a
         valid == a.kind = "valid"
         stop == valid /\ AbortGuard(l)
         n == s.n
         commit == valid /\ ~stop /\ ~n.threw
         kind == IF ~valid THEN a.kind
                 ELSE IF stop THEN "aborted"
                 ELSE IF n.threw THEN "normThrew" ELSE "committed"
         fall == kind \notin {"aborted", "committed"}
         last == l.pc = "csvDirect"
     IN /\ loads' = [loads EXCEPT ![k] =
                       [l EXCEPT !.last = kind,
                                 !.got = IF valid /\ ~stop THEN o.text.id ELSE @,
                                 !.pc = IF fall /\ ~last THEN NextVariant(l.pc) ELSE "done",
                                 !.issued = IF fall /\ ~last
                                              THEN Append(@, NextVariant(l.pc)) ELSE @]]
        /\ rows' = IF commit THEN n.data ELSE rows
        /\ loading' = IF commit \/ (fall /\ last) THEN FALSE ELSE loading
        /\ error' = IF fall /\ last THEN ErrorOnFailure(MsgV35, error) ELSE error
        /\ debugFields' = IF valid /\ ~stop THEN a.fields ELSE debugFields
        /\ debugSnippet' = IF l.pc = "html" /\ a.kind = "noHeaders"
                             THEN Slice200(o.text) ELSE debugSnippet
  /\ UNCHANGED <<version, useMainTagFilters, viewVars, slugVars, normVars, resolveVars, listVars, relayVars, htmlVars>>

\* v38 load(): CSV via proxy, then direct CSV, then one parse stage.
V38Settle(k, o) ==
  /\ version = "v38"
  /\ loads[k].pc # "done"
  /\ o \in OutcomesOf(loads[k].pc)
  /\ \E s \in {Settled[version][loads[k].pc][o]} :
     LET l == loads[k]
         p == s.a
         usable == p.kind \in {"noHeaders", "valid"}
         have == usable /\ o.text.head # ""
         valid == have /\ p.fields # <<>>
         stop == valid /\ AbortGuard(l)
         n == s.n
         commit == valid /\ ~stop /\ ~n.threw
         last == l.pc = "csvDirect"
         kind == IF o.threw THEN "threw"
                 ELSE IF ~o.ok THEN "notOk"
                 ELSE IF ~usable THEN "rejected"
                 ELSE IF ~have THEN "emptyText"
                 ELSE IF ~valid THEN "noHeaders"
                 ELSE IF stop THEN "aborted"
                 ELSE IF n.threw THEN "normThrew" ELSE "committed"
         next == ~have /\ ~last
         parseFailed == have /\ (~valid \/ (~stop /\ n.threw))
     IN /\ loads' = [loads EXCEPT ![k] =
                       [l EXCEPT !.last = kind,
                                 !.got = IF valid /\ ~stop THEN o.text.id ELSE @,
                                 !.pc = IF next THEN NextVariant(l.pc) ELSE "done",
                                 !.issued = IF next THEN Append(@, NextVariant(l.pc)) ELSE @]]
        /\ rows' = IF commit THEN n.data ELSE rows
        /\ loading' = IF next \/ stop THEN loading ELSE FALSE
        /\ error' = IF parseFailed THEN ErrorOnFailure(MsgV38Parse, error)
                    ELSE IF ~have /\ last THEN ErrorOnFailure(MsgV38Fetch, error)
                    ELSE error
        /\ debugFields' = IF valid /\ ~stop THEN p.fields ELSE debugFields
        /\ debugSnippet' = IF ~o.threw /\ o.ok /\ LooksLikeHtml(o.text)
                             THEN Slice200(o.text) ELSE debugSnippet
  /\ UNCHANGED <<version, useMainTagFilters, viewVars, slugVars, normVars, resolveVars, listVars, relayVars, htmlVars>>

\* v31: Papa.parse(proxy url, { download: true, complete, error }).
V31Settle(k, o) ==
  /\ version = "v31"
  /\ loads[k].pc # "done"
  /\ o.threw \/ ~o.ok \/ o.text.format = "csv"
  /\ \E s \in {Settled[version][loads[k].pc][o]} :
     LET l == loads[k]
         failed == o.threw \/ ~o.ok
         p == s.a
         valid == ~failed /\ p.fields # <<>>
         n == s.n
         commit == valid /\ ~n.threw
         kind == IF o.threw THEN "threw"
                 ELSE IF ~o.ok THEN "notOk"
                 ELSE IF ~valid THEN "noHeaders"
                 ELSE IF n.threw THEN "normThrew" ELSE "committed"
     IN /\ loads' = [loads EXCEPT ![k] =
                       [l EXCEPT !.last = kind,
                                 !.got = IF valid THEN o.text.id ELSE @,
                                 !.pc = "done"]]
        /\ rows' = IF commit THEN n.data ELSE rows
        /\ loading' = FALSE
        /\ error' = IF failed THEN ErrorOnFailure(MsgV31Net, error)
                    ELSE IF ~commit THEN ErrorOnFailure(MsgV31Read, error)
                    ELSE error
  /\ UNCHANGED <<version, debugFields, debugSnippet, useMainTagFilters, viewVars, slugVars, normVars, resolveVars, listVars, relayVars, htmlVars>>

\* Mutant of hasAnyMain: only the first row is looked at.
hasAnyMainFirstRow(data) == data # <<>> /\ data[1].mainTag # ""

\* data.some((r) => !!r.mainTag)
hasAnyMain(data) == \E j \in 1..Len(data) : data[j].mainTag # ""

\* v7: Papa.parse(csv url, { download: true, complete, error }); complete has
\* no try/catch, so an exception in it leaves the state as it was.
V7Settle(k, o) ==
  /\ version = "v7"
  /\ loads[k].pc # "done"
  /\ o.threw \/ ~o.ok \/ o.text.format = "csv"
  /\ \E s \in {Settled[version][loads[k].pc][o]} :
     LET l == loads[k]
         failed == o.threw \/ ~o.ok
         p == s.a
         n == s.n
         commit == ~failed /\ ~n.threw
         kind == IF o.threw THEN "threw"
                 ELSE IF ~o.ok THEN "notOk"
                 ELSE IF n.threw THEN "normThrew" ELSE "committed"
     IN /\ loads' = [loads EXCEPT ![k] =
                       [l EXCEPT !.last = kind,
                                 !.got = IF ~failed /\ p.fields # <<>> THEN o.text.id ELSE @,
                                 !.pc = "done"]]
        /\ rows' = IF commit THEN n.data ELSE rows
        /\ useMainTagFilters' = IF commit THEN hasAnyMain(n.data) ELSE useMainTagFilters
        /\ loading' = IF failed \/ commit THEN FALSE ELSE loading
  /\ UNCHANGED <<version, error, debugFields, debugSnippet, viewVars, slugVars, normVars, resolveVars, listVars, relayVars, htmlVars>>

Next ==
  \/ RunEffect
  \/ \E k \in 1..Len(loads), o \in Outcomes : V35Settle(k, o)
  \/ \E k \in 1..Len(loads), o \in Outcomes : V38Settle(k, o)
  \/ \E k \in 1..Len(loads), o \in Outcomes : V31Settle(k, o)
  \/ \E k \in 1..Len(loads), o \in Outcomes : V7Settle(k, o)

Spec == Init /\ [][Next]_vars

(***************************************************************************)
(* Filter/search engine: the derived values allFilterTags and filtered,    *)
(* the chip state, the tags a card shows, and the event handlers.          *)
(***************************************************************************)
Range(seq) == {seq[j] : j \in 1..Len(seq)}

\* arr.join(sep)
RECURSIVE Join(_, _)
Join(arr, sep) ==
  IF arr = <<>> THEN ""
  ELSE IF Len(arr) = 1 THEN arr[1]
  ELSE arr[1] \o sep \o Join(Tail(arr), sep)

\* h.includes(q)
includes(h, q) ==
  \E i \in 0..(Len(h) - Len(q)) : SubSeq(h, i + 1, i + Len(q)) = q

\* Mutant of allFilterTags: the hidden tags are added to the vocabulary.
allFilterTagsWithHidden(ver, rs, useMain) ==
  UNION {Range(rs[j].hiddenTags) : j \in 1..Len(rs)}
  \cup (IF ver = "v7" THEN {rs[j].mainTag : j \in {m \in 1..Len(rs) : rs[m].mainTag # ""}}
        ELSE UNION {Range(rs[j].categories) : j \in 1..Len(rs)})

\* allFilterTags, as the set of its members (the order given by
\* sort(localeCompare) only arranges the chips).
allFilterTags(ver, rs, useMain) ==
  IF ver = "v7"
    THEN IF useMain
           THEN {rs[j].mainTag : j \in {m \in 1..Len(rs) : rs[m].mainTag # ""}}
           ELSE UNION {Range(rs[j].legacyCategories) : j \in 1..Len(rs)}
    ELSE UNION {Range(rs[j].categories) : j \in 1..Len(rs)}

\* Mutant of TagPass: the tags are compared as they are written.
TagPassRaw(ver, useMain, sel, r) ==
  IF ver = "v7"
    THEN IF useMain THEN r.mainTag \in Range(sel)
         ELSE \E c \in Range(r.legacyCategories) : c \in Range(sel)
    ELSE \E c \in Range(r.categories) : c \in Range(sel)

\* Mutant of TagPass: a row must carry every selected tag.
TagPassAll(ver, useMain, sel, r) ==
  LET wanted == {slug(sel[j]) : j \in 1..Len(sel)}
      own == IF ver = "v7"
               THEN IF useMain THEN {slug(r.mainTag)} \ {slug("")}
                    ELSE {slug(c) : c \in Range(r.legacyCategories)}
               ELSE {slug(c) : c \in Range(r.categories)}
  IN wanted \subseteq own

\* Mutant of TagPass: a row without a main tag is matched on its legacy
\* categories while the main-tag axis is active.
TagPassMixed(ver, useMain, sel, r) ==
  LET wanted == {slug(sel[j]) : j \in 1..Len(sel)}
  IN IF ver = "v7"
       THEN IF useMain /\ r.mainTag # "" THEN slug(r.mainTag) \in wanted
            ELSE \E c \in Range(r.legacyCategories) : slug(c) \in wanted
       ELSE \E c \in Range(r.categories) : slug(c) \in wanted

\* The predicate of the tag filter: wanted.has(slug(...)) on the row's
\* mainTag (v7 with main tags) or on some category.
TagPass(ver, useMain, sel, r) ==
  LET wanted == {slug(sel[j]) : j \in 1..Len(sel)}
  IN IF ver = "v7"
       THEN IF useMain THEN r.mainTag # "" /\ slug(r.mainTag) \in wanted
            ELSE \E c \in Range(r.legacyCategories) : slug(c) \in wanted
       ELSE \E c \in Range(r.categories) : slug(c) \in wanted

\* Mutant of haystack: the text is not lower-cased.
haystackAsWritten(ver, r) ==
  Join(IF ver = "v7"
         THEN <<r.title, r.description, r.mainTag>> \o r.hiddenTags \o r.legacyCategories
         ELSE <<r.title, r.description>> \o r.categories \o r.cardCategories \o r.hiddenTags,
       " | ")

\* [title, description, ...tags].join(" | ").toLowerCase()
haystack(ver, r) ==
  toLowerCase(Join(IF ver = "v7"
                     THEN <<r.title, r.description, r.mainTag>>
                          \o r.hiddenTags \o r.legacyCategories
                     ELSE <<r.title, r.description>>
                          \o r.categories \o r.cardCategories \o r.hiddenTags,
                   " | "))

\* Mutant of filtered: the search step runs only when no tag is selected.
filteredEither(ver, rs, useMain, sel, qy) ==
  IF sel # <<>> THEN SelectSeq(rs, LAMBDA r : TagPass(ver, useMain, sel, r))
  ELSE IF trim(qy) # ""
    THEN SelectSeq(rs, LAMBDA r : includes(haystack(ver, r), toLowerCase(trim(qy))))
    ELSE rs

\* Mutant of filtered: the rows are collected tag by tag.
RECURSIVE filteredByTag(_, _, _, _, _)
filteredByTag(ver, rs, useMain, sel, qy) ==
  IF sel = <<>> THEN <<>>
  ELSE SelectSeq(rs, LAMBDA r : TagPass(ver, useMain, <<Head(sel)>>, r))
       \o filteredByTag(ver, rs, useMain, Tail(sel), qy)

\* filtered: the tag step when a tag is selected, then the search step when
\* the trimmed query is not empty.
filtered(ver, rs, useMain, sel, qy) ==
  LET byTag == IF sel # <<>>
                 THEN SelectSeq(rs, LAMBDA r : TagPass(ver, useMain, sel, r))
                 ELSE rs
  IN IF trim(qy) # ""
       THEN SelectSeq(byTag, LAMBDA r : includes(haystack(ver, r), toLowerCase(trim(qy))))
       ELSE byTag

\* selected={selectedTags.some((x) => slug(x) === slug(t))}
PillSelected(sel, t) == \E j \in 1..Len(sel) : slug(sel[j]) = slug(t)

\* The tags on a card: v7 shows the main tag, or else the first three
\* categories; the later variants show the card categories.
CardTags(ver, r) ==
  IF ver = "v7"
    THEN IF r.mainTag # "" THEN <<r.mainTag>>
         ELSE SubSeq(r.legacyCategories, 1,
                     IF Len(r.legacyCategories) < 3 THEN Len(r.legacyCategories) ELSE 3)
    ELSE r.cardCategories

\* Mutant of toggleTag: the selected entry is looked up by its text.
toggleTagRaw(prev, tag) ==
  IF tag \in Range(prev) THEN SelectSeq(prev, LAMBDA t : t # tag)
  ELSE Append(prev, tag)

\* The updater of toggleTag: prev.some(t => slug(t) === sl)
\*   ? prev.filter(t => slug(t) !== sl) : [...prev, tag]
toggleTag(prev, tag) ==
  IF PillSelected(prev, tag) THEN SelectSeq(prev, LAMBDA t : slug(t) # slug(tag))
  ELSE Append(prev, tag)

\* toggleTag(tag), called from a chip of the vocabulary.
ToggleTag(tag) ==
  /\ tag \in allFilterTags(version, rows, useMainTagFilters)
  /\ selectedTags' = toggleTag(selectedTags, tag)
  /\ UNCHANGED <<loaderVars, query, slugVars, normVars, resolveVars, listVars, relayVars, htmlVars>>

\* Mutant of ClearFilters: the button also empties the search box.
ClearFiltersAndQuery ==
  /\ selectedTags # <<>>
  /\ selectedTags' = <<>>
  /\ query' = ""
  /\ UNCHANGED <<loaderVars, slugVars, normVars, resolveVars, listVars, relayVars, htmlVars>>

\* clearFilters(); its button is rendered while a tag is selected.
ClearFilters ==
  /\ selectedTags # <<>>
  /\ selectedTags' = <<>>
  /\ UNCHANGED <<loaderVars, query, slugVars, normVars, resolveVars, listVars, relayVars, htmlVars>>

\* onChange of the search box: setQuery(e.target.value).
SetQuery(q) ==
  /\ query' = q
  /\ UNCHANGED <<loaderVars, selectedTags, slugVars, normVars, resolveVars, listVars, relayVars, htmlVars>>

\* The texts typed into the search box, and the tags of the model's bodies.
Queries == {"", "  ", "NFT", " hub", "secret"}
TagPool == {"Art", "art", "ART", "Dev", "Shop", "DAO", "nft", "code", "secret",
            "zeta", "beta"}

\* The page with one run of the load effect and the filter events.
ViewNext ==
  \/ loads = <<>> /\ RunEffect
  \/ \E k \in 1..Len(loads), o \in Outcomes : V35Settle(k, o)
  \/ \E k \in 1..Len(loads), o \in Outcomes : V38Settle(k, o)
  \/ \E k \in 1..Len(loads), o \in Outcomes : V31Settle(k, o)
  \/ \E k \in 1..Len(loads), o \in Outcomes : V7Settle(k, o)
  \/ \E t \in TagPool : ToggleTag(t)
  \/ ClearFilters
  \/ \E q \in Queries : SetQuery(q)

ViewSpec == Init /\ [][ViewNext]_vars

(***************************************************************************)
(* Harness for slug: the argument is any string over SlugAlphabet of at    *)
(* most MaxSlugLen characters; SlugCall applies slug to the argument and   *)
(* then to its own result.                                                 *)
(***************************************************************************)
SlugAlphabet == {"a", "B", "7", " ", "-", "&"}

RECURSIVE StringsUpTo(_, _)
StringsUpTo(alphabet, n) ==
  IF n = 0 THEN {""}
  ELSE LET shorter == StringsUpTo(alphabet, n - 1)
       IN shorter \cup {s \o c : s \in shorter, c \in alphabet}

InitSlug ==
  /\ InitComponent
  /\ slugIn \in StringsUpTo(SlugAlphabet, MaxSlugLen)
  /\ slugOut = <<>>
  /\ NoNormCall /\ NoResolveCall /\ NoListCall /\ NoRelayCall /\ NoHtmlCall

SlugCall ==
  /\ Len(slugOut) < 2
  /\ slugOut' = Append(slugOut, slug(IF slugOut = <<>> THEN slugIn ELSE slugOut[Len(slugOut)]))
  /\ UNCHANGED <<loaderVars, viewVars, slugIn, normVars, resolveVars, listVars, relayVars, htmlVars>>

SlugSpec == InitSlug /\ [][SlugCall]_vars

(***************************************************************************)
(* Harness for the row normalizer: one raw record with the cells below at  *)
(* ordinal i, under the headers NormFields; NormalizeCall resolves the     *)
(* columns and normalizes the record.                                      *)
(***************************************************************************)
MaxOrdinal == 2

NormFields == <<"Name", "URL", "Logo URL", "Logo">>
TitleCells == {"", "Foo Bar", " Foo ", "  "}
LinkCells == {"", "https://www.Example.com/x", "not a url", "mailto:a@b.c"}
LogoUrlCells == {"", "a.png", " "}
LogoCells == {"", "b.png"}

InitNorm ==
  /\ InitComponent
  /\ NoSlugCall /\ NoResolveCall /\ NoListCall /\ NoRelayCall /\ NoHtmlCall
  /\ normIn \in [title : TitleCells, link : LinkCells, logoUrl : LogoUrlCells,
                 logo : LogoCells, i : 0..MaxOrdinal]
  /\ normOut = <<>>

NormalizeCall ==
  /\ normOut = <<>>
  /\ normOut' = <<normalizeRow(version,
                               resolveColumns(NormFields, COLUMNS(version)),
                               RecordOf(NormFields,
                                        <<normIn.title, normIn.link, normIn.logoUrl, normIn.logo>>,
                                        FALSE),
                               normIn.i)>>
  /\ UNCHANGED <<loaderVars, viewVars, slugVars, normIn, resolveVars, listVars, relayVars, htmlVars>>

NormSpec == InitNorm /\ [][NormalizeCall]_vars

(***************************************************************************)
(* Harness for resolveColumns: the header list is any list of at most      *)
(* MaxFields headers of HeaderPool (a header may repeat); ResolveCall      *)
(* resolves it against CONFIG.COLUMNS of the mounted variant.              *)
(***************************************************************************)
MaxFields == 3

HeaderPool == {"name", "URL", "Title", " NAME ", "Primary tag", "Main tag", "foo", ""}

SeqsUpTo(S, n) == UNION {[1..m -> S] : m \in 0..n}

InitResolve ==
  /\ InitComponent
  /\ NoSlugCall /\ NoNormCall /\ NoListCall /\ NoRelayCall /\ NoHtmlCall
  /\ fieldsIn \in SeqsUpTo(HeaderPool, MaxFields)
  /\ colsOut = <<>>

ResolveCall ==
  /\ colsOut = <<>>
  /\ colsOut' = <<resolveColumns(fieldsIn, COLUMNS(version))>>
  /\ UNCHANGED <<loaderVars, viewVars, slugVars, normVars, fieldsIn, listVars, relayVars, htmlVars>>

ResolveSpec == InitResolve /\ [][ResolveCall]_vars

(***************************************************************************)
(* Harness for parseList: the value is any string over ListAlphabet of at  *)
(* most MaxListLen characters (an absent cell reaches parseList as "").    *)
(***************************************************************************)
MaxListLen == 5

ListAlphabet == {"a", "B", " ", ",", ";"}

InitList ==
  /\ InitComponent
  /\ NoSlugCall /\ NoNormCall /\ NoResolveCall /\ NoRelayCall /\ NoHtmlCall
  /\ listIn \in StringsUpTo(ListAlphabet, MaxListLen)
  /\ listOut = <<>>

ListCall ==
  /\ listOut = <<>>
  /\ listOut' = <<parseList(listIn)>>
  /\ UNCHANGED <<loaderVars, viewVars, slugVars, normVars, resolveVars, listIn, relayVars, htmlVars>>

ListSpec == InitList /\ [][ListCall]_vars

(***************************************************************************)
(* The relay (api/sheet-proxy.js).  One request is handled per behaviour:  *)
(* request.url is the value of searchParams.get("url"), <<>> when the      *)
(* parameter is absent; fetches records the upstream fetch and how it      *)
(* went.  A body is a sequence of byte groups: an ASCII character,         *)
(* "EFBBBF" (the bytes of U+FEFF, a byte order mark at the start),         *)
(* "EFBFBD" (the bytes of U+FFFD) or "FF" (a byte that is not UTF-8).      *)
(* A text is a sequence of code points.                                    *)
(***************************************************************************)
MaxBodyLen == 2

ByteGroups == {"a", ",", "EFBBBF", "EFBFBD", "FF"}

UrlParams == {<<>>, <<"">>, <<"https://docs.google.com/pub?output=csv">>, <<"not a url">>}

\* UTF-8 decode, as Body.text() runs it: a leading byte order mark is
\* dropped, a byte that is not UTF-8 becomes U+FFFD.
Utf8Decode(bytes) ==
  LET cp(b) == IF b = "EFBBBF" THEN "U+FEFF"
               ELSE IF b \in {"EFBFBD", "FF"} THEN "U+FFFD" ELSE b
      all == [j \in 1..Len(bytes) |-> cp(bytes[j])]
  IN IF all # <<>> /\ all[1] = "U+FEFF" THEN Tail(all) ELSE all

\* UTF-8 encode, as new Response(string) runs it.
Utf8Encode(text) ==
  [j \in 1..Len(text) |->
     IF text[j] = "U+FEFF" THEN "EFBBBF"
     ELSE IF text[j] = "U+FFFD" THEN "EFBFBD" ELSE text[j]]

InitRelay ==
  /\ InitComponent
  /\ NoSlugCall /\ NoNormCall /\ NoResolveCall /\ NoListCall /\ NoHtmlCall
  /\ request \in {[url |-> u] : u \in UrlParams}
  /\ relayPc = "start"
  /\ responses = <<>>
  /\ fetches = <<>>

\* handler, up to the first await: the parameter test and the fetch call.
\* fetch of a target that is not an absolute URL rejects; it is recorded as
\* a fetch whose only outcome is to throw.
RelayStart ==
  /\ relayPc = "start"
  /\ IF request.url = <<>> \/ request.url = <<"">>
       THEN /\ responses' = Append(responses, [status |-> 400, body |-> "Missing ?url= parameter"])
            /\ relayPc' = "done"
            /\ UNCHANGED fetches
       ELSE /\ fetches' = Append(fetches, [target |-> request.url[1], threw |-> FALSE,
                                           ok |-> FALSE, status |-> 0, body |-> <<>>])
            /\ relayPc' = "fetch"
            /\ UNCHANGED responses
  /\ UNCHANGED <<loaderVars, viewVars, slugVars, normVars, resolveVars, listVars, request, htmlVars>>

\* The awaited fetch settles: it throws, or it returns the upstream's
\* response with its status.
RelayFetched(threw, status) ==
  /\ relayPc = "fetch"
  /\ UrlHostname(request.url[1]).ok \/ threw
  /\ LET ok == status \in 200..299
     IN IF threw
          THEN /\ fetches' = [fetches EXCEPT ![1].threw = TRUE]
               /\ responses' = Append(responses, [status |-> 500, body |-> "Fetch failed"])
               /\ relayPc' = "done"
          ELSE /\ fetches' = [fetches EXCEPT ![1].ok = ok, ![1].status = status]
               /\ IF ~ok
                    THEN /\ responses' = Append(responses,
                                                [status |-> 502,
                                                 body |-> "Upstream error (" \o ToString(status) \o ")"])
                         /\ relayPc' = "done"
                    ELSE /\ relayPc' = "text"
                         /\ UNCHANGED responses
  /\ UNCHANGED <<loaderVars, viewVars, slugVars, normVars, resolveVars, listVars, request, htmlVars>>

\* The awaited upstream.text() settles: it throws, or it returns the body
\* decoded; new Response(body) without a status has status 200.
RelayText(threw, bytes) ==
  /\ relayPc = "text"
  /\ IF threw
       THEN /\ fetches' = [fetches EXCEPT ![1].threw = TRUE]
            /\ responses' = Append(responses, [status |-> 500, body |-> "Fetch failed"])
       ELSE /\ fetches' = [fetches EXCEPT ![1].body = bytes]
            /\ responses' = Append(responses,
                                   [status |-> 200, body |-> Utf8Encode(Utf8Decode(bytes))])
  /\ relayPc' = "done"
  /\ UNCHANGED <<loaderVars, viewVars, slugVars, normVars, resolveVars, listVars, request, htmlVars>>

UpstreamStatuses == {200, 204, 400, 404, 500}

RelayNext ==
  \/ RelayStart
  \/ \E threw \in BOOLEAN, status \in UpstreamStatuses : RelayFetched(threw, status)
  \/ \E threw \in BOOLEAN, bytes \in SeqsUpTo(ByteGroups, MaxBodyLen) : RelayText(threw, bytes)

RelaySpec == InitRelay /\ [][RelayNext]_vars

(***************************************************************************)
(* parsePublishedHtml on its own: the argument is the text of the cells    *)
(* of the chosen table, row by row (no row at all: the page has no table,  *)
(* or a table without a tr).                                               *)
(***************************************************************************)
MaxHtmlCols == 2

HtmlCells == {"", "Name", " a  b "}

HtmlTables ==
  {<<>>} \cup
  {<<h>> \o d : h \in SeqsUpTo(HtmlCells, MaxHtmlCols),
               d \in {<<>>} \cup {<<r>> : r \in SeqsUpTo(HtmlCells, MaxHtmlCols)}}

HtmlPage(cells) ==
  [id |-> "page", head |-> "<html><table>", format |-> "html", cells |-> cells]

InitHtml ==
  /\ InitComponent
  /\ NoSlugCall /\ NoNormCall /\ NoResolveCall /\ NoListCall /\ NoRelayCall
  /\ htmlIn \in HtmlTables
  /\ htmlOut = <<>>

HtmlCall ==
  /\ htmlOut = <<>>
  /\ htmlOut' = <<parsePublishedHtml(HtmlPage(htmlIn))>>
  /\ UNCHANGED <<loaderVars, viewVars, slugVars, normVars, resolveVars, listVars,
                 relayVars, htmlIn>>

HtmlSpec == InitHtml /\ [][HtmlCall]_vars

(***************************************************************************)
(* Properties.                                                             *)
(***************************************************************************)
FixedOrder == <<"html", "csvProxy", "csvDirect">>

IsPrefix(a, b) == Len(a) <= Len(b) /\ SubSeq(b, 1, Len(a)) = a

AllSettled == loads # <<>> /\ \A k \in 1..Len(loads) : loads[k].pc = "done"

\* The rows a body gives when parsed in its own format and normalized.
RowsOfBody ==
  [ver \in Versions |-> [b \in Bodies |->
     LET p == IF b.format = "html" THEN parsePublishedHtml(b) ELSE parseCsv(b)
     IN normalizeAll(ver, p.fields, p.rows)]]

\* What the load ended with: the rows of the body it committed, else none.
ResultOf(l) ==
  IF l.last = "committed" THEN RowsOfBody[version][BodyById(l.got)].data ELSE <<>>

\* How an attempt ends when it neither commits nor stops the load: the fetch
\* threw, the status was not ok, the body was refused or had no headers, or
\* processing its rows threw inside the attempt's try block.
FailedKinds == {"threw", "notOk", "rejected", "noHeaders", "emptyText", "normThrew"}

\* C1: in the variants with an aborted flag (v35, v38), a superseded load
\* never commits its rows, and once every load has settled the row set is the
\* result of the newest load, whatever the order in which the fetches of the
\* older and the newer load settle.
StaleLoadDiscarded ==
  HasAbortFlag(version) =>
    /\ \A k \in 1..Len(loads) : loads[k].aborted => loads[k].last # "committed"
    /\ AllSettled => rows = ResultOf(loads[Len(loads)])

\* C1 witness: the older load fetched and parsed a valid table after it was
\* superseded, the newer load committed, and both have settled.
StaleLoadDiscardedWitness ==
  /\ HasAbortFlag(version)
  /\ Len(loads) = 2
  /\ AllSettled
  /\ loads[1].last = "aborted"
  /\ loads[2].last = "committed"
  /\ rows # <<>>

AttemptsStopAtFirstValid ==
  version = "v35" =>
    \A k \in 1..Len(loads) :
      /\ Len(loads[k].issued) <= 3
      /\ loads[k].pc # "done" => loads[k].pc = loads[k].issued[Len(loads[k].issued)]
      /\ loads[k].pc # "done" => (loads[k].got = "" /\ loads[k].last # "normThrew")

\* C4: in v35 and v38, when the newest load has ended and none of its
\* attempts produced a header list (each threw, had a status that is not ok,
\* was refused or had zero headers), the error message is non-empty, loading
\* is false and the row set is empty.
TerminalFailure ==
  HasAbortFlag(version) =>
    \A k \in 1..Len(loads) :
      (/\ k = Len(loads)
       /\ loads[k].pc = "done"
       /\ loads[k].got = ""
       /\ loads[k].last \in FailedKinds \ {"normThrew"})
      => (error # "" /\ loading = FALSE /\ rows = <<>>)

\* C4 witness: a second v35 load, started while the first was in flight, has
\* failed all three attempts.
TerminalFailureWitness ==
  /\ version = "v35"
  /\ Len(loads) = 2
  /\ loads[2].pc = "done"
  /\ loads[2].issued = FixedOrder
  /\ loads[2].got = ""
  /\ loads[2].last \in {"threw", "notOk", "rejected", "noHeaders"}
  /\ error = MsgV35

\* C5 (as claimed): in v7, v31 and v35, when the newest load has ended,
\* loading is false and either the load committed rows from a source with a
\* non-empty header list or the error message is non-empty.
EveryLoadEnds ==
  version \in {"v7", "v31", "v35"} =>
    \A k \in 1..Len(loads) :
      (k = Len(loads) /\ loads[k].pc = "done")
      => /\ loading = FALSE
         /\ (loads[k].last = "committed" /\ loads[k].got # "") \/ error # ""

\* The data rows of a body whose title cell is empty and whose link cell is
\* non-empty and not parseable as a URL.
BadLinkRows(ver, b) ==
  LET p == IF b.format = "html" THEN parsePublishedHtml(b) ELSE parseCsv(b)
      cols == resolveColumns(p.fields, COLUMNS(ver))
  IN {j \in 1..Len(p.rows) :
        /\ Cell(cols.title, p.rows[j]) = ""
        /\ Cell(cols.link, p.rows[j]) # ""
        /\ ~UrlHostname(Cell(cols.link, p.rows[j])).ok}

\* C6 (as claimed): when the newest load hands the normalizer a source with a
\* row whose title is empty and whose link cannot be parsed as a URL, the load
\* commits all rows of that source and that row is titled "Untitled
\* {ordinal}".
MalformedLinkKeepsRows ==
  \A k \in 1..Len(loads) :
    (/\ k = Len(loads)
     /\ loads[k].got # ""
     /\ BadLinkRows(version, BodyById(loads[k].got)) # {})
    => /\ Len(rows) = Len(BodyById(loads[k].got).cells) - 1
       /\ \A j \in BadLinkRows(version, BodyById(loads[k].got)) :
            rows[j].title = "Untitled " \o ToString(j)

\* C7 (as claimed): every row of the committed row set has a non-empty title
\* and a non-empty image reference.
RowsHaveTitleAndImage ==
  \A j \in 1..Len(rows) : rows[j].title # "" /\ rows[j].image # ""

\* C8 (as claimed): the normalizer gives every record a title: the title
\* field when it is non-empty; else, when the link is non-empty, the link's
\* host lower-cased with one leading "www." removed; else "Untitled {i+1}".
\* Titles are compared as the normalizer stores them, trimmed.
TitleFallbackChain ==
  normOut # <<>> =>
    /\ ~normOut[1].threw
    /\ normOut[1].row.title =
         trim(IF normIn.title # "" THEN normIn.title
              ELSE IF normIn.link # ""
                THEN StripWww(toLowerCase(UrlHostname(normIn.link).hostname))
              ELSE "Untitled " \o ToString(normIn.i + 1))

\* C9 (as claimed): the image of a normalized row is the logo-URL field when
\* non-empty after trimming, else the legacy logo field when non-empty after
\* trimming, else "/logos/{slug(title)}.png".
ImageFallbackPriority ==
  (normOut # <<>> /\ ~normOut[1].threw) =>
    normOut[1].row.image =
      (IF trim(normIn.logoUrl) # "" THEN trim(normIn.logoUrl)
       ELSE IF trim(normIn.logo) # "" THEN trim(normIn.logo)
       ELSE "/logos/" \o slug(normOut[1].row.title) \o ".png")

WellFormedSlug(t) ==
  /\ \A j \in 1..Len(t) : CharAt(t, j) \in LowerAlnumSet \cup {"-"}
  /\ t # "" => (Head(t) # "-" /\ CharAt(t, Len(t)) # "-")
  /\ \A j \in 1..(Len(t) - 1) : ~(CharAt(t, j) = "-" /\ CharAt(t, j + 1) = "-")

\* C10: slug of any string is a string over [a-z0-9-] without a leading
\* hyphen, a trailing hyphen or two adjacent hyphens; applying slug to its
\* own result gives the same string; and slug of the empty string is empty.
SlugTotalIdempotent ==
  /\ \A j \in 1..Len(slugOut) : WellFormedSlug(slugOut[j])
  /\ Len(slugOut) = 2 => slugOut[2] = slugOut[1]
  /\ (slugIn = "" /\ slugOut # <<>>) => slugOut[1] = ""

\* C10 witness: slug was applied twice, first to an argument with an
\* upper-case letter and a run of two separators.
SlugTotalIdempotentWitness ==
  /\ slugIn = "a &B"
  /\ slugOut = <<"a-b", "a-b">>

\* A header matches a candidate when they are equal after lower-casing both
\* and trimming the header.
HeaderMatches(h, cand) == trim(toLowerCase(h)) = toLowerCase(cand)

\* C11: for each logical field resolveColumns returns null or a header of the
\* given list; the header returned matches the earliest candidate that
\* matches any header; null is returned exactly when no candidate matches
\* any header.
ColumnResolution ==
  colsOut # <<>> =>
    \A f \in DOMAIN COLUMNS(version) :
      LET c == colsOut[1][f]
          cands == COLUMNS(version)[f]
          matched == {m \in 1..Len(cands) :
                        \E j \in 1..Len(fieldsIn) : HeaderMatches(fieldsIn[j], cands[m])}
      IN /\ DOMAIN colsOut[1] = DOMAIN COLUMNS(version)
         /\ (c = <<>>) <=> (matched = {})
         /\ c # <<>> =>
              /\ Len(c) = 1
              /\ \E j \in 1..Len(fieldsIn) : fieldsIn[j] = c[1]
              /\ \E m \in matched :
                    /\ HeaderMatches(c[1], cands[m])
                    /\ \A q \in matched : m <= q

ColumnResolutionWitness ==
  /\ fieldsIn = <<"Title", "name", "URL">>
  /\ colsOut # <<>>
  /\ colsOut[1].title = <<"name">>
  /\ colsOut[1].link = <<"URL">>
  /\ colsOut[1].description = <<>>

\* C12: within the committed row set, rows at different positions have
\* different keys.
RowKeysUnique ==
  \A i, j \in 1..Len(rows) : i # j => rows[i].key # rows[j].key

RowKeysUniqueWitness ==
  /\ Len(rows) = 5
  /\ rows[1].key = "foo-0" /\ rows[2].key = "foo-1"
  /\ rows[3].key = "-2" /\ rows[4].key = "foo-1-3" /\ rows[5].key = "-4"

\* The derived values of the current state.
Vocabulary == allFilterTags(version, rows, useMainTagFilters)
View == filtered(version, rows, useMainTagFilters, selectedTags, query)
TagOnlyView == filtered(version, rows, useMainTagFilters, selectedTags, "")
SearchOnlyView == filtered(version, rows, useMainTagFilters, <<>>, query)

\* C13: after a load of v7, when some row has a non-empty mainTag the
\* vocabulary is the set of the rows' non-empty mainTag values, and when no
\* row has one it is the union of the rows' legacyCategories.
TagAxisSwitch ==
  version = "v7" =>
    LET main == {rows[j].mainTag : j \in {m \in 1..Len(rows) : rows[m].mainTag # ""}}
        legacy == UNION {Range(rows[j].legacyCategories) : j \in 1..Len(rows)}
    IN IF main # {} THEN Vocabulary = main ELSE Vocabulary = legacy

TagAxisSwitchWitness ==
  /\ version = "v7"
  /\ Len(rows) = 3
  /\ rows[1].mainTag = "" /\ rows[2].mainTag = "Art"
  /\ rows[1].legacyCategories = <<"Dev", "Art">>
  /\ useMainTagFilters
  /\ Vocabulary = {"Art", "ART"}

\* C14: the filtered view is the rows that are both in the tag-only view
\* and in the search-only view, and it is the whole row set when no tag is
\* selected and the query is empty.
FilterAndSearch ==
  /\ View = SelectSeq(rows, LAMBDA r : r \in Range(TagOnlyView) /\ r \in Range(SearchOnlyView))
  /\ (selectedTags = <<>> /\ query = "") => View = rows

FilterAndSearchWitness ==
  /\ version = "v7"
  /\ selectedTags = <<"Art">> /\ query = "NFT"
  /\ Len(rows) = 3
  /\ TagOnlyView = <<rows[2], rows[3]>>
  /\ SearchOnlyView = <<rows[1], rows[2]>>
  /\ View = <<rows[2]>>

\* The values of a row on the active tag axis.
ActiveAxis(r) ==
  IF version = "v7"
    THEN IF useMainTagFilters THEN {r.mainTag} \ {""} ELSE Range(r.legacyCategories)
    ELSE Range(r.categories)

\* C15: with a non-empty selection a row passes the tag filter exactly when
\* one of its values on the active axis has the slug of a selected tag, and
\* a chip is selected exactly when a tag with its slug is in the selection.
TagFilterBySlug ==
  /\ selectedTags # <<>> =>
       \A j \in 1..Len(rows) :
         rows[j] \in Range(TagOnlyView)
           <=> \E c \in ActiveAxis(rows[j]), t \in Range(selectedTags) : slug(c) = slug(t)
  /\ \A t \in Vocabulary :
       PillSelected(selectedTags, t) <=> slug(t) \in {slug(x) : x \in Range(selectedTags)}

TagFilterBySlugWitness ==
  /\ version = "v7"
  /\ selectedTags = <<"Art">> /\ query = ""
  /\ Len(rows) = 3 /\ rows[3].mainTag = "ART"
  /\ View = <<rows[2], rows[3]>>
  /\ PillSelected(selectedTags, "ART")

\* C16: the filtered view is a subsequence of the row set: each of its rows
\* is a row of the set, and they come in the order of the set, none twice.
FilteredKeepsOrder ==
  LET Pos(r) == CHOOSE j \in 1..Len(rows) : rows[j] = r
  IN /\ \A i \in 1..Len(View) : View[i] \in Range(rows)
     /\ \A i, k \in 1..Len(View) : i < k => Pos(View[i]) < Pos(View[k])

FilteredKeepsOrderWitness ==
  /\ version = "v35"
  /\ selectedTags = <<"Shop", "Dev">> /\ query = ""
  /\ Len(rows) = 3
  /\ View = <<rows[1], rows[2]>>

\* The searchable text of a row: its title, description and tag fields,
\* each lower-cased, joined by the separator.
SearchText(r) ==
  LET fields == IF version = "v7"
                  THEN <<r.title, r.description, r.mainTag>>
                       \o r.hiddenTags \o r.legacyCategories
                  ELSE <<r.title, r.description>>
                       \o r.categories \o r.cardCategories \o r.hiddenTags
  IN Join([j \in 1..Len(fields) |-> toLowerCase(fields[j])], " | ")

\* C17 (as stated): a row passes the search filter exactly when the query is
\* empty or the lower-cased query is a substring of the row's lower-cased
\* searchable text.
SearchAsStated ==
  \A j \in 1..Len(rows) :
    rows[j] \in Range(SearchOnlyView)
      <=> (query = "" \/ includes(SearchText(rows[j]), toLowerCase(query)))

\* C17 (amended): a row passes the search filter exactly when the trimmed
\* query is empty or the lower-cased trimmed query is a substring of the
\* row's lower-cased searchable text.
SearchTrimmed ==
  \A j \in 1..Len(rows) :
    rows[j] \in Range(SearchOnlyView)
      <=> (trim(query) = "" \/ includes(SearchText(rows[j]), toLowerCase(trim(query))))

SearchTrimmedWitness ==
  /\ version = "v7"
  /\ query = "NFT" /\ selectedTags = <<>>
  /\ Len(rows) = 3
  /\ rows[2].description = "Buy NFT prints"
  /\ View = <<rows[1], rows[2]>>

\* C20: a row's hidden tags are found by the search, and taking them away
\* changes neither the vocabulary, nor which rows pass the tag filter, nor
\* the tags a card shows.
HiddenTagsSearchOnly ==
  LET bare == [j \in 1..Len(rows) |-> [rows[j] EXCEPT !.hiddenTags = <<>>]]
  IN /\ allFilterTags(version, bare, useMainTagFilters) = Vocabulary
     /\ \A j \in 1..Len(rows) :
          /\ TagPass(version, useMainTagFilters, selectedTags, bare[j])
               <=> TagPass(version, useMainTagFilters, selectedTags, rows[j])
          /\ CardTags(version, bare[j]) = CardTags(version, rows[j])
          /\ \A h \in Range(rows[j].hiddenTags) :
               filtered(version, <<rows[j]>>, useMainTagFilters, <<>>, h) = <<rows[j]>>

HiddenTagsSearchOnlyWitness ==
  /\ version = "v7"
  /\ query = "secret" /\ selectedTags = <<>>
  /\ Len(rows) = 3
  /\ rows[2].hiddenTags = <<"secret">>
  /\ View = <<rows[2]>>
  /\ "secret" \notin Vocabulary
  /\ CardTags(version, rows[2]) = <<"Art">>

\* C19: parseList returns the pieces of the value between delimiters (comma
\* and semicolon), each trimmed, the empty ones dropped, in their order in
\* the value; no piece returned is empty or has whitespace at either end,
\* and the empty value gives the empty list.
ListParsing ==
  listOut # <<>> =>
    LET out == listOut[1]
        n == Len(listIn)
        cuts == {i \in 1..n : CharAt(listIn, i) \in {",", ";"}} \cup {0, n + 1}
        NextCut(a) == CHOOSE b \in cuts : b > a /\ \A c \in cuts : c > a => b <= c
        Piece(a) == trim(SubSeq(listIn, a + 1, NextCut(a) - 1))
        kept == {a \in cuts \ {n + 1} : Piece(a) # ""}
    IN /\ Len(out) = Cardinality(kept)
       /\ \A a \in kept : out[Cardinality({x \in kept : x <= a})] = Piece(a)
       /\ \A k \in 1..Len(out) :
            /\ out[k] # ""
            /\ ~IsSpace(Head(out[k]))
            /\ ~IsSpace(CharAt(out[k], Len(out[k])))
       /\ listIn = "" => out = <<>>

ListParsingWitness ==
  /\ listIn = " a;,B"
  /\ listOut = << <<"a", "B">> >>

\* How the relay's request went: "noUrl", "threw", "notOk" or "ok".
RelayOutcome ==
  IF request.url = <<>> \/ request.url = <<"">> THEN "noUrl"
  ELSE IF fetches[1].threw THEN "threw"
  ELSE IF ~fetches[1].ok THEN "notOk"
  ELSE "ok"

\* The statuses of C18: one response per request; 400 and no fetch without a
\* url, 502 for a non-ok upstream, 500 when the fetch or the body read
\* throws, 200 otherwise.
RelayStatuses ==
  /\ Len(responses) <= 1
  /\ (request # <<>> /\ relayPc = "done") =>
       /\ Len(responses) = 1
       /\ RelayOutcome = "noUrl" => responses[1].status = 400 /\ fetches = <<>>
       /\ RelayOutcome # "noUrl" => Len(fetches) = 1
       /\ RelayOutcome = "threw" => responses[1].status = 500
       /\ RelayOutcome = "notOk" => responses[1].status = 502
       /\ RelayOutcome = "ok" => responses[1].status = 200

\* C18: the relay answers every request with exactly one response, with the
\* status of RelayStatuses, and a 200 response has the upstream body
\* verbatim.
RelayResponses ==
  /\ RelayStatuses
  /\ (request # <<>> /\ relayPc = "done" /\ responses[1].status = 200) =>
       responses[1].body = fetches[1].body

\* The bodies none of whose headers matches a candidate of any field.
UnmatchedBodies ==
  {b \in Bodies :
     /\ b.cells # <<>>
     /\ \A ver \in Versions : \A f \in DOMAIN COLUMNS(ver) :
          \A m \in 1..Len(COLUMNS(ver)[f]), j \in 1..Len(b.cells[1]) :
            ~HeaderMatches(b.cells[1][j], COLUMNS(ver)[f][m])}

\* The canonical row of C21 at position j.
IsUntitledRow(r, j) ==
  /\ r.title = "Untitled " \o ToString(j)
  /\ r.link = "" /\ r.description = "" /\ r.hiddenTags = <<>>
  /\ IF version = "v7" THEN r.mainTag = "" /\ r.legacyCategories = <<>>
     ELSE r.categories = <<>> /\ r.cardCategories = <<>>

\* C21: the step in which a load commits a source none of whose headers
\* matches a candidate raises no error: it leaves the error message as it
\* was, ends the loading state and sets one row per raw record, in source
\* order, titled "Untitled {ordinal}" with empty link, description and tag
\* lists.
UnmatchedFieldsLoad ==
  [][\A k \in 1..Len(loads) :
       (/\ loads[k].pc # "done"
        /\ loads'[k].pc = "done"
        /\ loads'[k].last = "committed"
        /\ loads'[k].got # ""
        /\ BodyById(loads'[k].got) \in UnmatchedBodies)
       => /\ error' = error
          /\ loading' = FALSE
          /\ Len(rows') = Len(BodyById(loads'[k].got).cells) - 1
          /\ \A j \in 1..Len(rows') : IsUntitledRow(rows'[j], j)]_vars

UnmatchedFieldsLoadWitness ==
  /\ version = "v35"
  /\ Len(loads) = 1
  /\ loads[1].pc = "done" /\ loads[1].last = "committed" /\ loads[1].got = "HtmlUnmatched"
  /\ error = "" /\ loading = FALSE
  /\ Len(rows) = 2
  /\ rows[1].title = "Untitled 1" /\ rows[2].title = "Untitled 2"

\* C22: a step of a load whose aborted flag is set writes no component
\* state: rows, the error message, the loading flag and the debug fields
\* stay as they were, whether the load succeeds or fails.
StaleLoadWritesNothing ==
  [][\A k \in 1..Len(loads) :
       (HasAbortFlag(version) /\ loads[k].aborted /\ loads'[k] # loads[k])
       => UNCHANGED <<rows, error, loading, debugSnippet, debugFields>>]_vars

\* C23: in the CSV-only loader a load that ends on a fetched body with
\* zero headers has tried every variant: the direct CSV fetch was issued
\* after the CSV-via-relay one before the error was reported.
ZeroHeadersTriesDirect ==
  version = "v38" =>
    \A k \in 1..Len(loads) :
      (loads[k].pc = "done" /\ loads[k].last = "noHeaders")
      => loads[k].issued = <<"csvProxy", "csvDirect">>

\* C24: when several headers have the lower-cased, trimmed form of the
\* candidate that resolves a field, the field resolves to the first of them
\* in header order.
FirstDuplicateHeaderWins ==
  colsOut # <<>> =>
    \A f \in DOMAIN COLUMNS(version) :
      LET c == colsOut[1][f]
          cands == COLUMNS(version)[f]
      IN c # <<>> =>
           \A m \in 1..Len(cands) :
             HeaderMatches(c[1], cands[m]) =>
               \A j \in 1..Len(fieldsIn) :
                 HeaderMatches(fieldsIn[j], cands[m]) =>
                   \E i \in 1..j : fieldsIn[i] = c[1]

NoRepeats(s) == \A i, j \in 1..Len(s) : s[i] = s[j] => i = j

\* C25: every list-valued tag field of every canonical row holds no value
\* twice.
TagListsAreSets ==
  \A j \in 1..Len(rows) :
    /\ NoRepeats(rows[j].hiddenTags)
    /\ IF version = "v7" THEN NoRepeats(rows[j].legacyCategories)
       ELSE NoRepeats(rows[j].categories) /\ NoRepeats(rows[j].cardCategories)

\* C26: while the main-tag axis is active and a tag is selected, a row
\* with an empty mainTag is not in the filtered view, whatever its
\* legacyCategories are, and no row passes the tag filter through its
\* legacyCategories: it passes exactly when its mainTag is slug-equal to a
\* selected tag.
TagAxisNotMixed ==
  (version = "v7" /\ useMainTagFilters /\ selectedTags # <<>>) =>
    \A j \in 1..Len(rows) :
      /\ rows[j].mainTag = "" =>
            /\ rows[j] \notin Range(TagOnlyView)
            /\ rows[j] \notin Range(View)
      /\ rows[j] \in Range(TagOnlyView) <=>
            /\ rows[j].mainTag # ""
            /\ PillSelected(selectedTags, rows[j].mainTag)
      /\ TagPass(version, useMainTagFilters, selectedTags, rows[j])
           = TagPass(version, useMainTagFilters, selectedTags,
                     [rows[j] EXCEPT !.legacyCategories = selectedTags])

TagAxisNotMixedWitness ==
  /\ version = "v7" /\ useMainTagFilters
  /\ selectedTags = <<"ART">>
  /\ query = ""
  /\ Len(rows) = 3
  /\ rows[1].mainTag = ""
  /\ \E c \in Range(rows[1].legacyCategories) : PillSelected(selectedTags, c)
  /\ View = <<rows[2], rows[3]>>

SlugsOf(sel) == {slug(sel[j]) : j \in 1..Len(sel)}

\* C27: the selection never holds two entries with the same slug; toggling
\* an offered tag removes the slug-equal entry when one is selected and
\* appends the tag otherwise; toggling two slug-equal tags one after the
\* other leaves the selected slugs, and the filtered view, as they were.
SelectionHasDistinctSlugs ==
  /\ \A i, j \in 1..Len(selectedTags) :
       slug(selectedTags[i]) = slug(selectedTags[j]) => i = j
  /\ \A t \in Vocabulary :
       LET once == toggleTag(selectedTags, t)
       IN /\ IF \E j \in 1..Len(selectedTags) : slug(selectedTags[j]) = slug(t)
               THEN /\ SlugsOf(once) = SlugsOf(selectedTags) \ {slug(t)}
                    /\ Len(once) = Len(selectedTags) - 1
                    /\ \E i \in 1..Len(selectedTags) :
                         /\ slug(selectedTags[i]) = slug(t)
                         /\ once = SubSeq(selectedTags, 1, i - 1)
                                     \o SubSeq(selectedTags, i + 1, Len(selectedTags))
               ELSE once = selectedTags \o <<t>>
          /\ \A u \in Vocabulary :
               slug(u) = slug(t) =>
                 LET twice == toggleTag(once, u)
                 IN /\ SlugsOf(twice) = SlugsOf(selectedTags)
                    /\ filtered(version, rows, useMainTagFilters, twice, query) = View

SelectionHasDistinctSlugsWitness ==
  /\ version = "v7" /\ useMainTagFilters
  /\ selectedTags = <<"ART">>
  /\ toggleTag(selectedTags, "Art") = <<>>
  /\ toggleTag(toggleTag(selectedTags, "Art"), "ART") = <<"ART">>
  /\ {"Art", "ART"} \subseteq Vocabulary
  /\ query = "NFT"

\* C28: a step that changes the selection (toggleTag, clearFilters) leaves
\* the rows, the loading flag, the error message, the active tag axis and
\* the query as they were; a step that changes the query leaves the rows,
\* the loading flag, the error message, the active tag axis and the
\* selection as they were.
FilterEventsKeepData ==
  [][/\ selectedTags' # selectedTags =>
          UNCHANGED <<rows, loading, error, useMainTagFilters, query>>
     /\ query' # query =>
          UNCHANGED <<rows, loading, error, useMainTagFilters, selectedTags>>]_vars

FilterEventsKeepDataWitness ==
  /\ version = "v35"
  /\ selectedTags = <<"Dev", "Shop">>
  /\ query = " hub"
  /\ Len(rows) = 3 /\ loading = FALSE /\ error = ""
  /\ View = <<>> /\ TagOnlyView # <<>>

\* C29: every tag of the vocabulary, selected alone with an empty query,
\* leaves at least one row in the filtered view; and with a non-empty
\* selection, adding one more tag of the vocabulary removes no row from the
\* filtered view.
EveryTagSelectsSomething ==
  \A t \in Vocabulary :
    /\ filtered(version, rows, useMainTagFilters, <<t>>, "") # <<>>
    /\ selectedTags # <<>> =>
         /\ Range(View) \subseteq
              Range(filtered(version, rows, useMainTagFilters,
                             Append(selectedTags, t), query))
         /\ Range(TagOnlyView) \subseteq
              Range(filtered(version, rows, useMainTagFilters,
                             Append(selectedTags, t), ""))

EveryTagSelectsSomethingWitness ==
  /\ version = "v35"
  /\ selectedTags = <<"Shop">>
  /\ query = ""
  /\ "Dev" \in Vocabulary
  /\ Len(View) = 1
  /\ Len(filtered(version, rows, useMainTagFilters, <<"Shop", "Dev">>, "")) = 2

\* C30: parsePublishedHtml returns empty fields and rows, or a header list
\* with no empty field name in which two columns whose header cells are
\* both empty have different field names; every returned row maps each
\* field name to the text of its cell, and to "" when the cell is missing.
HtmlFieldNames ==
  htmlOut # <<>> =>
    LET p == htmlOut[1]
        hdr == [m \in 1..Len(htmlIn[1]) |-> CellText(htmlIn[1][m])]
    IN \/ p.fields = <<>> /\ p.rows = <<>>
       \/ /\ htmlIn # <<>>
          /\ Len(p.fields) = Len(hdr)
          /\ \A i \in 1..Len(hdr) :
               /\ p.fields[i] # ""
               /\ hdr[i] # "" => p.fields[i] = hdr[i]
          /\ \A i, j \in 1..Len(hdr) :
               (i # j /\ hdr[i] = "" /\ hdr[j] = "") => p.fields[i] # p.fields[j]
          /\ Len(p.rows) = Len(htmlIn) - 1
          /\ \A r \in 1..Len(p.rows) :
               /\ DOMAIN p.rows[r] = Range(p.fields)
               /\ \A i \in 1..Len(hdr) :
                    (\A j \in 1..Len(hdr) : p.fields[j] = p.fields[i] => j = i)
                    => p.rows[r][p.fields[i]] =
                         IF i <= Len(htmlIn[r + 1]) THEN CellText(htmlIn[r + 1][i]) ELSE ""

====
